---- MODULE Spec2Model ----
(***************************************************************************)
(* Device association flow of the Greengrass provisioning service          *)
(* (DevicesService): createDeviceAssociationTask, the queue consumer's     *)
(* associateDevicesWithGroup with its chain of handlers, and               *)
(* getDeviceAssociationTask.                                               *)
(*                                                                         *)
(* Every await of the source is a step boundary: an action is the code     *)
(* that runs between two awaits.  The collaborators whose code is not part *)
(* of the service file (the DAOs, the control plane client, the handlers)  *)
(* answer nondeterministically where the service cannot know the answer.   *)
(***************************************************************************)
EXTENDS Integers, Sequences, FiniteSets, Bags, TLC

VARIABLES
    store,      \* task store: taskId -> DeviceTaskSummary (devicesDao)
    queue,      \* messages published to the device association queue (sqs)
    cpc,        \* createDeviceAssociationTask: position of the call in flight
    cin,        \* createDeviceAssociationTask: its arguments
    ctask,      \* createDeviceAssociationTask: the local taskInfo
    cerr,       \* createDeviceAssociationTask: the error it raised
    clog,       \* createDeviceAssociationTask: collaborator calls of this call
    lastGet,    \* getDeviceAssociationTask: arguments and result of the last call
    ggVersions, \* control plane: group name -> its group versions (device sets)
    savedGroup, \* group store: group name -> outcome persisted by SaveGroup
    exec,       \* queue consumer: worker -> associateDevicesWithGroup in flight
    detached,   \* SaveGroup calls that were started and not awaited (a bag)
    delivered,  \* number of queue deliveries so far
    templates,  \* deployment templates: name -> stored template (templates DAO)
    tcall,      \* DeploymentTemplatesService.save: caller -> call in flight
    clock,      \* the time that new Date() returned last
    started,    \* number of save calls started so far
    saved,      \* per name: writes of save since the name was last absent
    inTurn      \* per name: every such write found the template as it was read

createVars == <<cpc, cin, ctask, cerr, clog, lastGet>>
workerVars == <<ggVersions, savedGroup, exec, detached, delivered>>
templateVars == <<templates, tcall, clock, started, saved, inTurn>>
vars == <<store, queue, createVars, workerVars, templateVars>>

----------------------------------------------------------------------------
(* Bounds and input domains *)

MaxItems == 2

KnownGroups == {"g1", "g2"}
GroupNameInputs == {"", "g1", "gX"}
TaskIds == {"id1", "id2"}

Device(thingName, type, provisioningTemplate) ==
    [thingName |-> thingName, type |-> type,
     provisioningTemplate |-> provisioningTemplate]

\* Two well-formed devices and one device for each field left empty.
DeviceInputs ==
    {Device("t1", "device", "tmpl-a"), Device("t2", "device", "tmpl-a"),
     Device("", "device", "tmpl-a"), Device("t1", "", "tmpl-a"),
     Device("t2", "device", "")}

ItemsInputs == UNION {[1..n -> DeviceInputs] : n \in 0..MaxItems}

None == [none |-> TRUE]

----------------------------------------------------------------------------
(* createDeviceAssociationTask *)

\* Validate without the check of provisioningTemplate.
ValidateNoTemplate(groupName, items) ==
    /\ groupName # ""
    /\ Len(items) >= 1
    /\ \A i \in 1..Len(items) :
          /\ items[i].thingName # ""
          /\ items[i].type # ""

\* The ow() checks at the head of createDeviceAssociationTask.
Validate(groupName, items) ==
    /\ groupName # ""
    /\ Len(items) >= 1
    /\ \A i \in 1..Len(items) :
          /\ items[i].thingName # ""
          /\ items[i].type # ""
          /\ items[i].provisioningTemplate # ""

\* getGroupItem without the check for an undefined group.
GetGroupItemResultUnchecked(groupName, daoFails) ==
    IF daoFails THEN "DaoError" ELSE "ok"

\* getGroupItem: the DAO's error is rethrown, an undefined group is NOT_FOUND.
GetGroupItemResult(groupName, daoFails) ==
    IF daoFails THEN "DaoError"
    ELSE IF groupName \notin KnownGroups THEN "NOT_FOUND"
    ELSE "ok"

\* BuildTaskInfo with the devices in reverse order.
BuildTaskInfoReversed(taskId, groupName, items) ==
    [taskId |-> taskId,
     groupName |-> groupName,
     status |-> "Waiting",
     devices |-> [i \in 1..Len(items) |->
                    [thingName |-> items[Len(items) + 1 - i].thingName,
                     type |-> items[Len(items) + 1 - i].type,
                     provisioningTemplate |->
                         items[Len(items) + 1 - i].provisioningTemplate,
                     status |-> "Waiting"]]]

\* The taskInfo literal: status Waiting, every device spread with status Waiting.
BuildTaskInfo(taskId, groupName, items) ==
    [taskId |-> taskId,
     groupName |-> groupName,
     status |-> "Waiting",
     devices |-> [i \in 1..Len(items) |->
                    [thingName |-> items[i].thingName,
                     type |-> items[i].type,
                     provisioningTemplate |-> items[i].provisioningTemplate,
                     status |-> "Waiting"]]]

\* AfterSave with the rejection of the save swallowed.
AfterSaveSwallowed(ok) == "send"

\* await saveDeviceAssociationTask: a rejected save leaves the function.
AfterSave(ok) == IF ok THEN "send" ELSE "raised"

\* await sendMessage(...).promise(): a rejected publish leaves the function.
AfterSend(ok) == IF ok THEN "returned" ELSE "raised"

CreateCall(groupName, items) ==
    /\ cpc = "idle"
    /\ DOMAIN store # TaskIds
    /\ cin' = [groupName |-> groupName, items |-> items]
    /\ IF Validate(groupName, items)
         THEN cpc' = "getGroupItem" /\ cerr' = ""
         ELSE cpc' = "raised" /\ cerr' = "ValidationError"
    /\ UNCHANGED <<store, queue, ctask, clog, lastGet, workerVars, templateVars>>

CreateGetGroupItem ==
    /\ cpc = "getGroupItem"
    /\ clog' = Append(clog, "groupsDao.get")
    /\ \E daoFails \in BOOLEAN :
         LET r == GetGroupItemResult(cin.groupName, daoFails) IN
           IF r = "ok"
             THEN cpc' = "getGroupInfo" /\ cerr' = cerr
             ELSE cpc' = "raised" /\ cerr' = r
    /\ UNCHANGED <<store, queue, cin, ctask, lastGet, workerVars, templateVars>>

CreateGetGroupInfo ==
    /\ cpc = "getGroupInfo"
    /\ clog' = Append(clog, "ggUtils.getGroupInfo")
    /\ \E ok \in BOOLEAN :
         IF ok
           THEN \E id \in TaskIds \ DOMAIN store :
                  /\ ctask' = BuildTaskInfo(id, cin.groupName, cin.items)
                  /\ cpc' = "save"
                  /\ cerr' = cerr
           ELSE cpc' = "raised" /\ cerr' = "UpstreamError" /\ ctask' = ctask
    /\ UNCHANGED <<store, queue, cin, lastGet, workerVars, templateVars>>

CreateSave ==
    /\ cpc = "save"
    /\ clog' = Append(clog, "devicesDao.saveDeviceAssociationTask")
    /\ \E ok \in BOOLEAN :
         /\ cpc' = AfterSave(ok)
         /\ store' = IF ok THEN (ctask.taskId :> ctask) @@ store ELSE store
         /\ cerr' = IF cpc' = "raised" THEN "StoreError" ELSE cerr
    /\ UNCHANGED <<queue, cin, ctask, lastGet, workerVars, templateVars>>

CreateSend ==
    /\ cpc = "send"
    /\ clog' = Append(clog, "sqs.sendMessage")
    /\ \E ok \in BOOLEAN :
         /\ cpc' = AfterSend(ok)
         /\ queue' = IF ok THEN Append(queue, ctask) ELSE queue
         /\ cerr' = IF cpc' = "raised" THEN "QueueError" ELSE cerr
    /\ UNCHANGED <<store, cin, ctask, lastGet, workerVars, templateVars>>

\* The call has ended: its frame is gone and the next request can arrive.
CreateEnd ==
    /\ cpc \in {"returned", "raised"}
    /\ cpc' = "idle"
    /\ cin' = None /\ ctask' = None /\ cerr' = "" /\ clog' = <<>>
    /\ UNCHANGED <<store, queue, lastGet, workerVars, templateVars>>

----------------------------------------------------------------------------
(* getDeviceAssociationTask *)

\* devicesDao.getDeviceAssociationTask: the record under (groupId, taskId).
DaoGetTask(groupId, taskId) ==
    IF taskId \in DOMAIN store /\ store[taskId].groupName = groupId
      THEN store[taskId] ELSE None

\* The result of a call that waits for the DAO.
Pending == [pending |-> TRUE]

\* getDeviceAssociationTask is called: the ow check, then the DAO is asked.
GetDeviceAssociationTask(groupId, taskId) ==
    /\ IF lastGet = None THEN TRUE ELSE lastGet.result # Pending
    /\ lastGet' = [groupId |-> groupId, taskId |-> taskId,
                   result |-> IF taskId = "" THEN [error |-> "ValidationError"]
                              ELSE Pending]
    /\ UNCHANGED <<store, queue, cpc, cin, ctask, cerr, clog, workerVars, templateVars>>

\* devicesDao.getDeviceAssociationTask settles: the record as the store
\* holds it now is returned, or the rejection reaches the caller.
GetDeviceAssociationTaskSettles ==
    /\ lastGet # None
    /\ lastGet.result = Pending
    /\ \E ok \in BOOLEAN :
         lastGet' = [lastGet EXCEPT !.result =
                       IF ok THEN DaoGetTask(lastGet.groupId, lastGet.taskId)
                             ELSE [error |-> "UpstreamError"]]
    /\ UNCHANGED <<store, queue, cpc, cin, ctask, cerr, clog, workerVars, templateVars>>

----------------------------------------------------------------------------
(* associateDevicesWithGroup: the lookups *)

MaxDeliveries == 2

Workers == {"w1", "w2"}
Lookups == {"core", "device", "template"}
\* The chain with setNext(provisionThingHandler) and
\* setNext(existingAssociationHandler) exchanged.
StagesExchanged ==
    <<"GetThing1", "ProvisionThing", "ExistingAssociation", "GetThing2",
      "CoreConfig", "GetPrincipal", "CreateGroupVersion", "SaveGroup">>

\* The chain as the constructor links it with setNext.
Stages == <<"GetThing1", "ExistingAssociation", "ProvisionThing", "GetThing2",
            "CoreConfig", "GetPrincipal", "CreateGroupVersion", "SaveGroup">>
SaveGroupStage == Len(Stages)
HandledMessage == "task failed"
ErrorMessage == "unexpected error"

IdleExec ==
    [pc |-> "idle", task |-> None, gStatus |-> "None", gMsg |-> "",
     latest |-> 0, core |-> None, snap |-> {}, template |-> None,
     pend |-> {}, stage |-> 0,
     saveCalls |-> 0, caught |-> FALSE, halted |-> FALSE]

Latest(g) == ggVersions[g][Len(ggVersions[g])]

\* The ow() checks at the head of associateDevicesWithGroup.
ValidTaskInfo(taskInfo) ==
    /\ taskInfo # None
    /\ taskInfo.taskId # ""
    /\ taskInfo.groupName # ""
    /\ Len(taskInfo.devices) >= 1

\* MarkInProgress without the forEach over the devices.
MarkInProgressTaskOnly(taskInfo) ==
    [taskInfo EXCEPT !.status = "InProgress"]

\* "mark as in progress": the task and every device of it.
MarkInProgress(taskInfo) ==
    [taskInfo EXCEPT !.status = "InProgress",
                     !.devices = [i \in 1..Len(taskInfo.devices) |->
                                    [taskInfo.devices[i] EXCEPT !.status = "InProgress"]]]

\* A failed lookup with the task marked before the lookups.
LookupFailedMarked(e) ==
    [e EXCEPT !.pc = "raised", !.pend = {}, !.snap = {},
              !.task = MarkInProgress(e.task)]

\* A lookup before the try block rejects: the error leaves
\* associateDevicesWithGroup with nothing else done.
LookupFailed(e) ==
    [e EXCEPT !.pc = "raised", !.pend = {}, !.snap = {}]

\* What the lookups of Promise.all resolve to: the definitions of the group
\* version that was looked up and the template of the group.
CoreInfo(e) == [coreOf |-> e.task.groupName, version |-> e.latest]
DeviceInfo(e) == ggVersions[e.task.groupName][e.latest]
TemplateItem(e) == [templateOf |-> e.task.groupName]

\* The destructuring with ggCoreVersion and template exchanged.
BuildRequestExchanged(e, results) ==
    [e EXCEPT !.core = results[3], !.snap = results[2], !.template = results[1]]

\* const [ggCoreVersion, ggDeviceVersion, template] = await Promise.all([...])
\* and the request literal built from them.
BuildRequest(e, results) ==
    [e EXCEPT !.core = results[1], !.snap = results[2], !.template = results[3]]

\* The store with the InProgress mark of the orchestrator written to it.
StoreAfterMarkWritten(task) ==
    [store EXCEPT ![task.taskId] = task]

\* The orchestrator marks the taskInfo object it was given: the store is not
\* written.
StoreAfterMark(task) == store

\* A worker that has no execution in flight.
Free(w) == exec[w].pc \in {"idle", "returned", "raised", "lost"}

\* The workers are alike: a delivery goes to the first one that is free.
Slot == [w \in Workers |-> IF w = "w1" THEN 1 ELSE 2]

\* The queue hands a published message to a free worker, which parses it and
\* calls associateDevicesWithGroup.  Delivery is at least once.
Deliver(w, i) ==
    /\ delivered < MaxDeliveries
    /\ Free(w)
    /\ \A v \in Workers : Free(v) => Slot[w] <= Slot[v]
    /\ i \in 1..Len(queue)
    /\ delivered' = delivered + 1
    /\ exec' = [exec EXCEPT ![w] =
                 [IdleExec EXCEPT !.task = queue[i],
                                  !.pc = IF ValidTaskInfo(queue[i])
                                           THEN "getGroupItem" ELSE "raised"]]
    /\ UNCHANGED <<store, queue, createVars, templateVars, ggVersions, savedGroup, detached>>

\* getGroupItem: request.group is the item the group store returns, with the
\* taskStatus and statusMessage it holds (the outcome SaveGroup persisted for
\* the group, if any); nothing resets them before the chain.
AssocGetGroupItem(w) ==
    /\ exec[w].pc = "getGroupItem"
    /\ \E daoFails \in BOOLEAN :
         exec' = [exec EXCEPT ![w] =
                    IF GetGroupItemResult(exec[w].task.groupName, daoFails) = "ok"
                      THEN [exec[w] EXCEPT
                              !.pc = "getGroupInfo",
                              !.gStatus = savedGroup[exec[w].task.groupName].taskStatus,
                              !.gMsg = savedGroup[exec[w].task.groupName].statusMessage]
                      ELSE LookupFailed(exec[w])]
    /\ UNCHANGED <<store, queue, createVars, templateVars, ggVersions, savedGroup, detached, delivered>>

\* ggUtils.getGroupInfo: the group with its LatestVersion.
AssocGetGroupInfo(w) ==
    /\ exec[w].pc = "getGroupInfo"
    /\ \E ok \in BOOLEAN :
         exec' = IF ok
                   THEN [exec EXCEPT ![w].pc = "getGroupVersionInfo",
                                     ![w].latest = Len(ggVersions[exec[w].task.groupName])]
                   ELSE [exec EXCEPT ![w] = LookupFailed(exec[w])]
    /\ UNCHANGED <<store, queue, createVars, templateVars, ggVersions, savedGroup, detached, delivered>>

\* ggUtils.getGroupVersionInfo, then the three lookups of Promise.all start.
AssocGetGroupVersionInfo(w) ==
    /\ exec[w].pc = "getGroupVersionInfo"
    /\ \E ok \in BOOLEAN :
         exec' = IF ok
                   THEN [exec EXCEPT ![w].pc = "lookups", ![w].pend = Lookups]
                   ELSE [exec EXCEPT ![w] = LookupFailed(exec[w])]
    /\ UNCHANGED <<store, queue, createVars, templateVars, ggVersions, savedGroup, detached, delivered>>

\* One lookup of Promise.all settles.  The first rejection rejects the await;
\* when the last one resolves the task is marked and the chain is entered.
AssocLookup(w, l) ==
    /\ exec[w].pc = "lookups"
    /\ l \in exec[w].pend
    /\ \E ok \in BOOLEAN :
         LET e == exec[w]
             snap == IF l = "device" THEN DeviceInfo(e) ELSE e.snap
             settled == [e EXCEPT !.pend = e.pend \ {l}, !.snap = snap]
             request == BuildRequest(settled,
                           <<CoreInfo(e), settled.snap, TemplateItem(e)>>)
             marked == [request EXCEPT !.pc = "chain", !.stage = 1,
                                       !.task = MarkInProgress(e.task)]
         IN IF ~ok
              THEN exec' = [exec EXCEPT ![w] = LookupFailed(e)] /\ store' = store
              ELSE IF e.pend = {l}
                THEN /\ exec' = [exec EXCEPT ![w] = marked]
                     /\ store' = StoreAfterMark(marked.task)
                ELSE exec' = [exec EXCEPT ![w] = settled] /\ store' = store
    /\ UNCHANGED <<queue, createVars, templateVars, ggVersions, savedGroup, detached, delivered>>

----------------------------------------------------------------------------
(* The chain of handlers *)

\* ExistingAssociation: a device whose thing belongs to another group fails.
InOtherGroup(thingName, groupName) ==
    \E g \in KnownGroups \ {groupName} : thingName \in Latest(g)

ExistingAssociationFailsAll(task) ==
    [task EXCEPT !.devices = [i \in 1..Len(task.devices) |->
        IF \E j \in 1..Len(task.devices) :
              InOtherGroup(task.devices[j].thingName, task.groupName)
          THEN [task.devices[i] EXCEPT !.status = "Failure"]
          ELSE task.devices[i]]]

ExistingAssociation(task) ==
    [task EXCEPT !.devices = [i \in 1..Len(task.devices) |->
        IF InOtherGroup(task.devices[i].thingName, task.groupName)
          THEN [task.devices[i] EXCEPT !.status = "Failure"]
          ELSE task.devices[i]]]

\* CreateGroupVersion: the device definition that was looked up, plus the
\* things of the devices that did not fail.
NewGroupVersion(e) ==
    e.snap \cup {e.task.devices[i].thingName :
                   i \in {j \in 1..Len(e.task.devices) :
                            e.task.devices[j].status # "Failure"}}

\* SaveGroup that finishes the task and leaves its devices as they are.
SaveGroupFinalTaskOnly(e) ==
    LET final == IF e.gStatus = "Failure" THEN "Failure" ELSE "Success" IN
    [e EXCEPT !.gStatus = final, !.task = [e.task EXCEPT !.status = final]]

\* SaveGroup: the final statuses of the group, the task and its devices.
SaveGroupFinal(e) ==
    LET final == IF e.gStatus = "Failure" THEN "Failure" ELSE "Success" IN
    [e EXCEPT !.gStatus = final,
              !.task = [e.task EXCEPT
                 !.status = final,
                 !.devices = [i \in 1..Len(e.task.devices) |->
                    IF e.task.devices[i].status = "InProgress"
                      THEN [e.task.devices[i] EXCEPT !.status = final]
                      ELSE e.task.devices[i]]]]

SaveRequest(e) ==
    [task |-> e.task, gStatus |-> e.gStatus, gMsg |-> e.gMsg]

\* The writes of SaveGroup: the task record and the outcome of its group.
Persist(r) ==
    /\ store' = [store EXCEPT ![r.task.taskId] = r.task]
    /\ savedGroup' = [savedGroup EXCEPT ![r.task.groupName] =
                        [taskStatus |-> r.gStatus, statusMessage |-> r.gMsg]]

\* Guard without the test: the last error always wins.
GuardOverwrites(gStatus, gMsg, errMessage) ==
    [gStatus |-> "Failure", gMsg |-> errMessage]

\* catch (err): first failure wins.
Guard(gStatus, gMsg, errMessage) ==
    IF gStatus # "Failure"
      THEN [gStatus |-> "Failure", gMsg |-> errMessage]
      ELSE [gStatus |-> gStatus, gMsg |-> gMsg]

\* A catch block that does not call SaveGroup.
CatchSkipsSaveGroup == FALSE

\* catch (err): this.saveGroupHandler.handle(request) is called.
CatchCallsSaveGroup == TRUE

\* After the catch block the function logs and returns.
AfterCatch == "returned"

\* What a handler can reject with: an Error, or a value without a message.
Thrown == {"Error", "undefined"}

\* The catch block of associateDevicesWithGroup, entered with the request as
\* the chain left it: the guard, then SaveGroup is started and not awaited.
\* When the guard assigns and err is undefined or null, reading err.message
\* throws after taskStatus was set: the TypeError leaves the function and
\* SaveGroup is not called.
Catch(e, err) ==
    LET g == Guard(e.gStatus, e.gMsg, ErrorMessage)
        guarded == [e EXCEPT !.gStatus = g.gStatus, !.gMsg = g.gMsg,
                             !.caught = TRUE, !.pc = AfterCatch]
    IN IF e.gStatus # "Failure" /\ err # "Error"
         THEN [e EXCEPT !.gStatus = g.gStatus, !.pc = "raised"]
         ELSE IF CatchCallsSaveGroup
           THEN [SaveGroupFinal(guarded) EXCEPT !.saveCalls = @ + 1]
           ELSE guarded

\* A handler before SaveGroup does its work and calls the next handler.
HandlerContinues(w) ==
    /\ exec[w].pc = "chain"
    /\ exec[w].stage < SaveGroupStage
    /\ LET e == exec[w]
           name == Stages[e.stage]
       IN /\ exec' = [exec EXCEPT ![w] =
                 [e EXCEPT !.stage = e.stage + 1,
                           !.task = IF name = "ExistingAssociation"
                                      THEN ExistingAssociation(e.task) ELSE e.task]]
          /\ ggVersions' = IF name = "CreateGroupVersion"
                             THEN [ggVersions EXCEPT ![e.task.groupName] =
                                     Append(@, NewGroupVersion(e))]
                             ELSE ggVersions
    /\ UNCHANGED <<store, queue, createVars, templateVars, savedGroup, detached, delivered>>

\* A handler before SaveGroup fails the whole task: it records the failure,
\* stops the chain and hands the request to SaveGroup.
HandlerHalts(w) ==
    /\ exec[w].pc = "chain"
    /\ exec[w].stage < SaveGroupStage
    /\ exec' = [exec EXCEPT ![w].stage = SaveGroupStage,
                            ![w].halted = TRUE,
                            ![w].gStatus = "Failure",
                            ![w].gMsg = IF exec[w].gStatus = "Failure"
                                          THEN exec[w].gMsg ELSE HandledMessage]
    /\ UNCHANGED <<store, queue, createVars, templateVars, ggVersions, savedGroup, detached, delivered>>

\* A handler before SaveGroup throws: the error reaches the catch block.
HandlerThrows(w) ==
    /\ exec[w].pc = "chain"
    /\ exec[w].stage < SaveGroupStage
    /\ \E err \in Thrown :
       LET after == Catch(exec[w], err) IN
         /\ exec' = [exec EXCEPT ![w] = after]
         /\ detached' = IF after.saveCalls > exec[w].saveCalls
                          THEN detached (+) SetToBag({SaveRequest(after)})
                          ELSE detached
    /\ UNCHANGED <<store, queue, createVars, templateVars, ggVersions, savedGroup, delivered>>

\* SaveGroup as the last handler of the chain: it sets the final statuses on
\* the request and starts its write.
SaveGroupStarts(w) ==
    /\ exec[w].pc = "chain"
    /\ exec[w].stage = SaveGroupStage
    /\ exec' = [exec EXCEPT ![w] =
                 [SaveGroupFinal(exec[w]) EXCEPT !.saveCalls = @ + 1,
                                                 !.pc = "saving"]]
    /\ UNCHANGED <<store, queue, createVars, templateVars, ggVersions, savedGroup, detached, delivered>>

\* The write of SaveGroup resolves: the outcome is persisted and the chain
\* ends.
SaveGroupSaves(w) ==
    /\ exec[w].pc = "saving"
    /\ exec' = [exec EXCEPT ![w].pc = "returned"]
    /\ Persist(SaveRequest(exec[w]))
    /\ UNCHANGED <<queue, createVars, templateVars, ggVersions, detached, delivered>>

\* The write of SaveGroup is rejected: the error reaches the catch block.
SaveGroupThrows(w) ==
    /\ exec[w].pc = "saving"
    /\ \E err \in Thrown :
       LET after == Catch(exec[w], err)
       IN /\ exec' = [exec EXCEPT ![w] = after]
          /\ detached' = IF after.saveCalls > exec[w].saveCalls
                           THEN detached (+) SetToBag({SaveRequest(after)})
                           ELSE detached
    /\ UNCHANGED <<store, queue, createVars, templateVars, ggVersions, savedGroup, delivered>>

\* The process exits: the executions in flight and the calls that nobody
\* awaits are lost.
ProcessExits ==
    /\ exec' = [w \in Workers |->
                  IF exec[w].pc \in {"idle", "returned", "raised", "lost"}
                    THEN exec[w] ELSE [IdleExec EXCEPT !.pc = "lost"]]
    /\ detached' = EmptyBag

\* A SaveGroup call that nobody awaits finishes: it persists, or it rejects.
\* Nothing handles the rejection: with the runtime it is reported and lost,
\* or it ends the process.
DetachedSaveGroup(r) ==
    /\ BagIn(r, detached)
    /\ \E outcome \in {"resolves", "rejection lost", "process exits"} :
         /\ IF outcome = "resolves"
              THEN Persist(r) ELSE UNCHANGED <<store, savedGroup>>
         /\ IF outcome = "process exits"
              THEN ProcessExits
              ELSE detached' = detached (-) SetToBag({r}) /\ exec' = exec
    /\ UNCHANGED <<queue, createVars, templateVars, ggVersions, delivered>>

----------------------------------------------------------------------------
(* DeploymentTemplatesService: save and delete of a deployment template *)

MaxSaves == 3

Callers == {"a", "b"}
TemplateNames == {"t1", "t2"}

\* enabled is an optional boolean of the model: undefined when not supplied.
Undefined == "undefined"
EnabledInputs == {Undefined, "true", "false"}

Source(type, bucket, prefix) == [type |-> type, bucket |-> bucket, prefix |-> prefix]

Template(name, type, source, enabled) ==
    [name |-> name, type |-> type, source |-> source, enabled |-> enabled]

S3 == Source("s3", "bucket", "prefix")

TemplateInputs ==
    {Template("t1", "agentbased", S3, en) : en \in EnabledInputs}
      \cup {Template("t2", "agentbased", S3, Undefined),
            Template("", "agentbased", S3, "true"),
            Template("t1", "", S3, "true"),
            Template("t1", "agentbased", Source("", "bucket", "prefix"), "true"),
            Template("t1", "agentbased", Source("s3", "", "prefix"), "true"),
            Template("t1", "agentbased", Source("s3", "bucket", ""), "true")}

\* The ow checks of save.
ValidateTemplate(template) ==
    /\ template.name # ""
    /\ template.type # ""
    /\ template.source.type # ""
    /\ template.source.bucket # ""
    /\ template.source.prefix # ""

\* a ?? b
Coalesce(a, b) == IF a = Undefined THEN b ELSE a

\* enabled of an existing name taken from the caller when supplied.
EnabledCallerFirst(template, existingTemplate) ==
    IF existingTemplate # None
      THEN Coalesce(template.enabled, existingTemplate.enabled)
      ELSE Coalesce(template.enabled, "true")

\* template.enabled as save sets it in the two branches.
Enabled(template, existingTemplate) ==
    IF existingTemplate # None
      THEN Coalesce(existingTemplate.enabled, existingTemplate.enabled)
      ELSE Coalesce(template.enabled, "true")

\* versionNo of an existing name left as it was read.
VersionNoNotAdvanced(existingTemplate) ==
    IF existingTemplate # None THEN existingTemplate.versionNo ELSE 1

\* template.versionNo as save sets it in the two branches.
VersionNo(existingTemplate) ==
    IF existingTemplate # None THEN existingTemplate.versionNo + 1 ELSE 1

\* "set remaining data": the template as save hands it to the DAO.
SetRemainingData(template, existingTemplate, now) ==
    [name |-> template.name, type |-> template.type, source |-> template.source,
     versionNo |-> VersionNo(existingTemplate),
     createdAt |-> IF existingTemplate # None
                     THEN existingTemplate.createdAt ELSE now,
     updatedAt |-> now,
     enabled |-> Enabled(template, existingTemplate)]

IdleCall == [pc |-> "idle", input |-> None, existing |-> None, template |-> None]

\* save is called: the ow checks.
TemplateSave(c, template) ==
    /\ tcall[c].pc = "idle"
    /\ started < MaxSaves
    /\ started' = started + 1
    /\ tcall' = [tcall EXCEPT ![c] =
                   IF ValidateTemplate(template)
                     THEN [IdleCall EXCEPT !.pc = "get", !.input = template]
                     ELSE [IdleCall EXCEPT !.pc = "raised", !.input = template]]
    /\ UNCHANGED <<store, queue, createVars, workerVars, templates, clock, saved, inTurn>>

\* deploymentTemplatesDao.get settles; when it resolves the remaining data
\* are set and deploymentTemplatesDao.save is called.  new Date() is the
\* time of the last reading or a later one.
TemplateSaveGet(c) ==
    /\ tcall[c].pc = "get"
    /\ \E ok \in BOOLEAN, now \in {clock, clock + 1} :
         IF ok
           THEN LET existingTemplate == templates[tcall[c].input.name] IN
                /\ tcall' = [tcall EXCEPT ![c].pc = "save",
                                          ![c].existing = existingTemplate,
                                          ![c].template =
                                             SetRemainingData(tcall[c].input,
                                                              existingTemplate, now)]
                /\ clock' = now
           ELSE /\ tcall' = [tcall EXCEPT ![c].pc = "raised"]
                /\ clock' = clock
    /\ UNCHANGED <<store, queue, createVars, workerVars, templates, started, saved, inTurn>>

\* deploymentTemplatesDao.save settles: the template is stored, or the
\* rejection reaches the caller.
TemplateSaveWrite(c) ==
    /\ tcall[c].pc = "save"
    /\ \E ok \in BOOLEAN :
         LET name == tcall[c].input.name IN
         IF ok
           THEN /\ templates' = [templates EXCEPT ![name] = tcall[c].template]
                /\ saved' = [saved EXCEPT ![name] = @ + 1]
                /\ inTurn' = [inTurn EXCEPT ![name] =
                                 @ /\ tcall[c].existing = templates[name]]
                /\ tcall' = [tcall EXCEPT ![c].pc = "returned"]
           ELSE /\ tcall' = [tcall EXCEPT ![c].pc = "raised"]
                /\ UNCHANGED <<templates, saved, inTurn>>
    /\ UNCHANGED <<store, queue, createVars, workerVars, clock, started>>

\* The caller has the outcome of save or delete.
TemplateSaveEnd(c) ==
    /\ tcall[c].pc \in {"returned", "raised"}
    /\ tcall' = [tcall EXCEPT ![c] = IdleCall]
    /\ UNCHANGED <<store, queue, createVars, workerVars, templates, clock, started, saved, inTurn>>

\* delete is called: the ow check, then the DAO is asked.
TemplateDelete(c, name) ==
    /\ tcall[c].pc = "idle"
    /\ tcall' = [tcall EXCEPT ![c] =
                   [IdleCall EXCEPT !.pc = IF name # "" THEN "delete" ELSE "raised",
                                    !.input = [name |-> name]]]
    /\ UNCHANGED <<store, queue, createVars, workerVars, templates, clock, started, saved, inTurn>>

\* deploymentTemplatesDao.delete settles: the template is removed, or the
\* rejection reaches the caller.
TemplateDeleteSettles(c) ==
    /\ tcall[c].pc = "delete"
    /\ \E ok \in BOOLEAN :
         LET name == tcall[c].input.name IN
         IF ok
           THEN /\ templates' = [templates EXCEPT ![name] = None]
                /\ saved' = [saved EXCEPT ![name] = 0]
                /\ inTurn' = [inTurn EXCEPT ![name] = TRUE]
                /\ tcall' = [tcall EXCEPT ![c].pc = "returned"]
           ELSE /\ tcall' = [tcall EXCEPT ![c].pc = "raised"]
                /\ UNCHANGED <<templates, saved, inTurn>>
    /\ UNCHANGED <<store, queue, createVars, workerVars, clock, started>>

----------------------------------------------------------------------------
(* Specifications *)

InitWorkerVars ==
    /\ ggVersions = [g \in KnownGroups |-> <<{}>>]
    /\ savedGroup = [g \in KnownGroups |->
                       [taskStatus |-> "None", statusMessage |-> ""]]
    /\ exec = [w \in Workers |-> IdleExec]
    /\ detached = EmptyBag
    /\ delivered = 0

InitTemplateVars ==
    /\ templates = [n \in TemplateNames |-> None]
    /\ tcall = [c \in Callers |-> IdleCall]
    /\ clock = 1
    /\ started = 0
    /\ saved = [n \in TemplateNames |-> 0]
    /\ inTurn = [n \in TemplateNames |-> TRUE]

InitCreateVars ==
    /\ cpc = "idle"
    /\ cin = None
    /\ ctask = None
    /\ cerr = ""
    /\ clog = <<>>
    /\ lastGet = None

Init ==
    /\ store = <<>>
    /\ queue = <<>>
    /\ InitCreateVars
    /\ InitWorkerVars
    /\ InitTemplateVars

Next ==
    \/ \E g \in GroupNameInputs, items \in ItemsInputs : CreateCall(g, items)
    \/ CreateGetGroupItem
    \/ CreateGetGroupInfo
    \/ CreateSave
    \/ CreateSend
    \/ CreateEnd
    \/ \E g \in KnownGroups, t \in TaskIds \cup {""} : GetDeviceAssociationTask(g, t)
    \/ GetDeviceAssociationTaskSettles

Spec == Init /\ [][Next]_vars

\* The queue consumer, started with tasks that createDeviceAssociationTask has
\* persisted and published.
T1 == Device("t1", "device", "tmpl-a")
T2 == Device("t2", "device", "tmpl-a")

CreatedTasks ==
    {<<BuildTaskInfo("id1", "g1", <<T1, T2>>), BuildTaskInfo("id2", "g1", <<T2>>)>>,
     <<BuildTaskInfo("id1", "g1", <<T1>>), BuildTaskInfo("id2", "g2", <<T1, T2>>)>>}

InitWorker ==
    /\ \E tasks \in CreatedTasks :
         /\ queue = tasks
         /\ store = [id \in {tasks[i].taskId : i \in 1..Len(tasks)} |->
                       CHOOSE t \in {tasks[i] : i \in 1..Len(tasks)} : t.taskId = id]
    /\ InitCreateVars
    /\ InitWorkerVars
    /\ InitTemplateVars

NextWorker ==
    \/ \E w \in Workers, i \in 1..Len(queue) : Deliver(w, i)
    \/ \E w \in Workers : AssocGetGroupItem(w)
    \/ \E w \in Workers : AssocGetGroupInfo(w)
    \/ \E w \in Workers : AssocGetGroupVersionInfo(w)
    \/ \E w \in Workers, l \in Lookups : AssocLookup(w, l)
    \/ \E w \in Workers : HandlerContinues(w)
    \/ \E w \in Workers : HandlerHalts(w)
    \/ \E w \in Workers : HandlerThrows(w)
    \/ \E w \in Workers : SaveGroupStarts(w)
    \/ \E w \in Workers : SaveGroupSaves(w)
    \/ \E w \in Workers : SaveGroupThrows(w)
    \/ \E r \in BagToSet(detached) : DetachedSaveGroup(r)

SpecWorker == InitWorker /\ [][NextWorker]_vars

\* The deployment templates service with its callers.
NextTemplates ==
    \/ \E c \in Callers, template \in TemplateInputs : TemplateSave(c, template)
    \/ \E c \in Callers : TemplateSaveGet(c)
    \/ \E c \in Callers : TemplateSaveWrite(c)
    \/ \E c \in Callers : TemplateSaveEnd(c)
    \/ \E c \in Callers, name \in TemplateNames \cup {""} : TemplateDelete(c, name)
    \/ \E c \in Callers : TemplateDeleteSettles(c)

SpecTemplates == Init /\ [][NextTemplates]_vars

----------------------------------------------------------------------------
(* Properties of createDeviceAssociationTask (specification Spec) *)

Terminal == {"Success", "Failure"}

SaveCall == "devicesDao.saveDeviceAssociationTask"
SendCall == "sqs.sendMessage"

Calls(name) == {i \in 1..Len(clog) : clog[i] = name}

\* C1: the task record is saved before the message is published, a failed
\* save publishes nothing, and every message in the queue carries a taskId
\* whose record is in the store.
C1_PersistBeforePublish ==
    /\ \A i \in 1..Len(queue) : queue[i].taskId \in DOMAIN store
    /\ \A i \in Calls(SendCall) :
          /\ \E j \in Calls(SaveCall) : j < i
          /\ ctask.taskId \in DOMAIN store
    /\ cerr = "StoreError" => Calls(SendCall) = {}

C1_Witness ==
    /\ cpc = "returned"
    /\ clog[Len(clog)] = SendCall
    /\ queue[Len(queue)].taskId = ctask.taskId

\* The inputs C5 names: an empty groupName, an empty items list, or an item
\* with an empty thingName, type or provisioningTemplate.
HasEmptyInput(in) ==
    \/ in.groupName = ""
    \/ in.items = <<>>
    \/ \E i \in 1..Len(in.items) :
          \/ in.items[i].thingName = ""
          \/ in.items[i].type = ""
          \/ in.items[i].provisioningTemplate = ""

\* C5: a call with such an input fails with a validation error and has made
\* no group lookup, no control plane call, no store write and no publish.
C5_ValidationBeforeSideEffects ==
    (cpc # "idle" /\ HasEmptyInput(cin)) =>
        /\ cpc = "raised"
        /\ cerr = "ValidationError"
        /\ clog = <<>>
        /\ ctask = None

C5_Witness ==
    /\ cpc = "raised"
    /\ cerr = "ValidationError"
    /\ cin.groupName = "g1"
    /\ Len(cin.items) = 2
    /\ cin.items[1] = Device("t1", "device", "tmpl-a")
    /\ cin.items[2].provisioningTemplate = ""

\* C9: the summary returned for a valid input has status Waiting, a taskId
\* no stored task had before the save, and the input devices in their order,
\* each with status Waiting; getDeviceAssociationTask for its group and
\* taskId, before the message is processed, returns that summary.
C9_ReturnsWaitingSnapshot ==
    /\ [](/\ cpc = "save" => ctask.taskId \notin DOMAIN store
          /\ \A i, j \in 1..Len(queue) :
                queue[i].taskId = queue[j].taskId => i = j
          /\ cpc = "returned" =>
                /\ ctask.status = "Waiting"
                /\ ctask.groupName = cin.groupName
                /\ Len(ctask.devices) = Len(cin.items)
                /\ \A i \in 1..Len(cin.items) :
                      /\ ctask.devices[i].thingName = cin.items[i].thingName
                      /\ ctask.devices[i].type = cin.items[i].type
                      /\ ctask.devices[i].provisioningTemplate =
                             cin.items[i].provisioningTemplate
                      /\ ctask.devices[i].status = "Waiting"
                /\ store[ctask.taskId] = ctask)
    /\ [][(/\ lastGet # None
           /\ lastGet.result = Pending
           /\ lastGet'.result \notin {Pending, [error |-> "UpstreamError"]}
           /\ lastGet'.taskId \in DOMAIN store
           /\ lastGet'.groupId = store[lastGet'.taskId].groupName) =>
              /\ lastGet'.result = store[lastGet'.taskId]
              /\ lastGet'.result.status = "Waiting"
              /\ (cpc = "returned" /\ lastGet'.taskId = ctask.taskId) =>
                     lastGet'.result = ctask
         ]_vars

C9_Witness ==
    /\ cpc = "returned"
    /\ cin.items = <<Device("t2", "device", "tmpl-a"), Device("t1", "device", "tmpl-a")>>
    /\ DOMAIN store = TaskIds
    /\ lastGet # None
    /\ lastGet.taskId = ctask.taskId
    /\ lastGet.groupId = cin.groupName
    /\ lastGet.result = ctask

\* C10: for a group name the group store does not know the call fails with
\* NOT_FOUND, and a failed control plane check fails the call after a single
\* attempt; in both cases nothing is saved and nothing is published.
C10_GroupMustResolve ==
    /\ (cpc # "idle" /\ ~HasEmptyInput(cin) /\ cin.groupName \notin KnownGroups
          /\ clog # <<>> /\ cerr # "DaoError") =>
          /\ cpc = "raised"
          /\ cerr = "NOT_FOUND"
          /\ clog = <<"groupsDao.get">>
          /\ ctask = None
    /\ cerr = "UpstreamError" =>
          /\ cpc = "raised"
          /\ clog = <<"groupsDao.get", "ggUtils.getGroupInfo">>
          /\ ctask = None

C10_Witness ==
    /\ cpc = "raised"
    /\ cerr = "NOT_FOUND"
    /\ cin.groupName = "gX"
    /\ Len(queue) = 1
    /\ DOMAIN store = {queue[1].taskId}

----------------------------------------------------------------------------
(* Properties of associateDevicesWithGroup (specification SpecWorker) *)

Finished(e) == e.pc \in {"returned", "raised"}

\* The SaveGroup calls nobody awaits of which one settles in the step.
Settled ==
    {r \in BagToSet(detached) : CopiesIn(r, detached') < CopiesIn(r, detached)}

\* C2: once the chain has begun, every path ends with SaveGroup invoked
\* exactly once.
C2_SaveGroupExactlyOnce ==
    \A w \in Workers : exec[w].pc = "returned" => exec[w].saveCalls = 1

\* C3 as stated: after associateDevicesWithGroup has returned or raised,
\* SaveGroup has fired and the stored task is not Waiting.
C3_PersistedAfterReturn ==
    \A w \in Workers : Finished(exec[w]) =>
        /\ exec[w].saveCalls >= 1
        /\ store[exec[w].task.taskId].status # "Waiting"

\* C3 amended: a normal return means the chain was entered and SaveGroup was
\* invoked at least once; an error raised before the chain means a lookup
\* failed and SaveGroup was not invoked; an error raised after the chain was
\* entered means the catch block itself threw, and it did not call
\* SaveGroup; whatever SaveGroup writes is not Waiting, so a stored task is
\* Waiting only while it is the record that was created.
C3_SaveGroupFiredOnReturn ==
    /\ \A w \in Workers :
          /\ exec[w].pc = "returned" => exec[w].stage >= 1 /\ exec[w].saveCalls >= 1
          /\ (exec[w].pc = "raised" /\ exec[w].stage = 0) => exec[w].saveCalls = 0
          /\ (exec[w].pc = "raised" /\ exec[w].stage >= 1) =>
                /\ ~exec[w].caught
                /\ exec[w].gStatus = "Failure"
                /\ exec[w].saveCalls = IF exec[w].task.status = "InProgress"
                                         THEN 0 ELSE 1
    /\ \A r \in BagToSet(detached) : r.task.status \in Terminal
    /\ \A t \in DOMAIN store :
          store[t].status \in Terminal
            \/ \E i \in 1..Len(queue) : queue[i] = store[t]

C3_Witness ==
    \E w \in Workers :
        /\ exec[w].pc = "returned"
        /\ exec[w].caught
        /\ detached = EmptyBag
        /\ store[exec[w].task.taskId].status = "Failure"

\* C4: when the chain throws after a failure was recorded, the guard leaves
\* the status and the message of the group as they were and that message is
\* the one handed to SaveGroup and persisted; when none was recorded the
\* guard records Failure with the message of the error.
C4_FirstFailureWins ==
    [][ /\ \A w \in Workers :
            (exec[w].pc \in {"chain", "saving"} /\ exec'[w].caught) =>
               /\ exec'[w].gStatus = "Failure"
               /\ exec'[w].gMsg = IF exec[w].gStatus = "Failure"
                                    THEN exec[w].gMsg ELSE ErrorMessage
               /\ \E r \in BagToSet(detached') :
                     /\ r.task.taskId = exec[w].task.taskId
                     /\ r.gStatus = "Failure"
                     /\ r.gMsg = exec'[w].gMsg
        /\ \A r \in Settled :
              savedGroup' # savedGroup =>
                 savedGroup'[r.task.groupName] =
                    [taskStatus |-> "Failure", statusMessage |-> r.gMsg]
      ]_vars

C4_Witness ==
    \E w \in Workers :
        /\ exec[w].caught
        /\ exec[w].gMsg = HandledMessage
        /\ savedGroup[exec[w].task.groupName].statusMessage = HandledMessage

\* C6: whatever the chain rejects with is caught: the group is marked
\* Failure and associateDevicesWithGroup returns normally; it raises only
\* before the chain is entered.
C6_ChainErrorsAreCaught ==
    \A w \in Workers :
        /\ exec[w].caught => exec[w].pc = "returned" /\ exec[w].gStatus = "Failure"
        /\ exec[w].pc = "raised" => exec[w].stage = 0 /\ ~exec[w].caught

\* C7: once a terminal status is persisted for a task, its stored record
\* never changes again.
C7_TerminalIsImmutable ==
    [][\A t \in DOMAIN store :
          store[t].status \in Terminal => store'[t] = store[t]]_vars

\* C8: executions for different tasks do not interfere: as after any run of
\* the tasks one after the other, the latest version of a group holds every
\* thing that a version of the group has held.
C8_SameAsOneAfterTheOther ==
    \A g \in KnownGroups :
        Latest(g) = UNION {ggVersions[g][i] : i \in 1..Len(ggVersions[g])}

----------------------------------------------------------------------------
(* The chain and the lookups before it *)

C11_Order ==
    <<"GetThing1", "ExistingAssociation", "ProvisionThing", "GetThing2",
      "CoreConfig", "GetPrincipal", "CreateGroupVersion", "SaveGroup">>

C11_Position(name) == CHOOSE i \in 1..Len(C11_Order) : C11_Order[i] = name

\* C11: one stage of an execution runs at a time, in the order GetThing
\* (pass 1), ExistingAssociation, ProvisionThing, GetThing (pass 2),
\* CoreConfig, GetPrincipal, CreateGroupVersion, SaveGroup: the chain is
\* entered at GetThing (pass 1), a stage that continues hands the request to
\* the stage that follows it in this order, a stage that stops the chain
\* hands it to SaveGroup, and the chain ends without an error only at
\* SaveGroup.
C11_FixedSequentialOrder ==
    [][\A w \in Workers :
         LET e == exec[w]
             f == exec'[w]
         IN /\ (e.pc # "chain" /\ f.pc = "chain") =>
                   Stages[f.stage] = C11_Order[1]
            /\ (e.pc = "chain" /\ f.pc = "chain" /\ f.stage # e.stage) =>
                   \/ /\ f.gMsg = e.gMsg
                      /\ C11_Position(Stages[e.stage]) < Len(C11_Order)
                      /\ Stages[f.stage] =
                            C11_Order[C11_Position(Stages[e.stage]) + 1]
                   \/ /\ f.gStatus = "Failure"
                      /\ Stages[f.stage] = "SaveGroup"
            /\ (e.pc = "chain" /\ f.pc = "saving") =>
                   Stages[e.stage] = "SaveGroup" /\ f.stage = e.stage
            /\ (e.pc \in {"chain", "saving"} /\ f.pc = "returned" /\ ~f.caught) =>
                   e.pc = "saving" /\ Stages[e.stage] = "SaveGroup"
      ]_vars

C11_Witness ==
    \E w \in Workers :
        /\ exec[w].pc = "saving"
        /\ exec[w].gStatus = "Success"
        /\ Len(ggVersions[exec[w].task.groupName]) > 1

\* C12 as stated: the lookup of the group version is in flight together with
\* the lookups of the core definition, the device definition and the
\* template.
C12_FourLookupsTogether ==
    \A w \in Workers :
        exec[w].pc = "getGroupVersionInfo" =>
           exec[w].pend = {"core", "device", "template"}

\* C12: the lookup of the group version is awaited alone; the lookups of the
\* core definition, the device definition and the template are then in
\* flight together and settle in any order, and for every order the request
\* holds the core definition and the device definition of the version that
\* was looked up and the template of the group.
C12_ThreeLookupsAfterGroupVersion ==
    \A w \in Workers :
        LET e == exec[w] IN
        /\ e.pc = "getGroupVersionInfo" => e.pend = {}
        /\ e.pc = "lookups" =>
              e.pend # {} /\ e.pend \subseteq {"core", "device", "template"}
        /\ e.pc \in {"chain", "saving"} =>
              /\ e.pend = {}
              /\ e.core = [coreOf |-> e.task.groupName, version |-> e.latest]
              /\ e.snap = ggVersions[e.task.groupName][e.latest]
              /\ e.template = [templateOf |-> e.task.groupName]

C12_Witness ==
    \E w \in Workers, v \in Workers :
        /\ exec[w].pc = "lookups" /\ exec[w].pend = {"core"}
        /\ exec[v].pc = "chain" /\ exec[v].stage = 1

C14_OnlyTheConflictingDeviceFails ==
    [][\A w \in Workers :
         LET e == exec[w]
             f == exec'[w]
             devs == 1..Len(e.task.devices)
         IN /\ (e.pc = "chain" /\ Stages[e.stage] = "ExistingAssociation"
                 /\ f.pc = "chain" /\ f.stage = e.stage + 1) =>
                   /\ f.gStatus = e.gStatus /\ f.gMsg = e.gMsg
                   /\ f.task.status = "InProgress"
                   /\ \A i \in devs :
                         f.task.devices[i].status =
                           IF \E g \in KnownGroups \ {e.task.groupName} :
                                 e.task.devices[i].thingName \in Latest(g)
                             THEN "Failure" ELSE "InProgress"
            /\ (e.pc = "chain" /\ e.gStatus # "Failure" /\ f.pc = "saving") =>
                   /\ f.task.status = "Success"
                   /\ \A i \in devs :
                         f.task.devices[i].status =
                           IF e.task.devices[i].status = "Failure"
                             THEN "Failure" ELSE "Success"
            /\ (e.pc = "saving" /\ f.pc = "returned" /\ ~f.caught) =>
                   store'[e.task.taskId] = e.task
      ]_vars

C14_Witness ==
    \E t \in DOMAIN store :
        /\ store[t].status = "Success"
        /\ Len(store[t].devices) = 2
        /\ store[t].devices[1].status = "Failure"
        /\ store[t].devices[2].status = "Success"

----------------------------------------------------------------------------
(* The error path and the writes of the task *)

\* C15 as stated: while an execution is in its chain, a terminal status of
\* the group is never changed to another value.
C15_TerminalGroupStatusKept ==
    [][\A w \in Workers :
         (exec[w].pc \in {"chain", "saving"} /\ exec[w].gStatus \in Terminal) =>
            exec'[w].gStatus = exec[w].gStatus
      ]_vars

\* C15: while an execution is in its chain, a Failure of the group is kept
\* with its message; a Success is changed only to Failure, by a handler
\* that fails the task or by the guard of the catch block, which records
\* the message of the error when the error has one.
C15_FailureIsKept ==
    [][\A w \in Workers :
         LET e == exec[w]
             f == exec'[w]
         IN e.pc \in {"chain", "saving"} =>
              /\ (e.gStatus = "Failure" /\ f.pc # "lost") =>
                    f.gStatus = "Failure" /\ f.gMsg = e.gMsg
              /\ (e.gStatus = "Success" /\ f.gStatus # "Success" /\ f.pc # "lost") =>
                    /\ f.gStatus = "Failure"
                    /\ f.gMsg = IF f.caught THEN ErrorMessage
                                ELSE IF f.halted THEN HandledMessage ELSE e.gMsg
      ]_vars

C15_Witness ==
    \E w \in Workers :
        /\ exec[w].caught
        /\ exec[w].saveCalls = 2
        /\ exec[w].gStatus = "Failure"
        /\ exec[w].gMsg = ErrorMessage

\* C16: when associateDevicesWithGroup returns from its catch block, the
\* SaveGroup call of the catch block has finished and the stored task is
\* Failure.
C16_DefensiveSaveCompleted ==
    [][\A w \in Workers :
         (/\ exec[w].pc \in {"chain", "saving"}
          /\ exec'[w].pc = "returned"
          /\ exec'[w].caught) =>
            /\ ~BagIn(SaveRequest(exec'[w]), detached')
            /\ store'[exec[w].task.taskId].status = "Failure"
      ]_vars

\* C17: until the lookups have all succeeded the task and its devices are
\* Waiting; the first handler is entered with the task and every device
\* InProgress, and no handler sees Waiting.
C17_InProgressBeforeFirstHandler ==
    \A w \in Workers :
        LET e == exec[w]
            statuses == {e.task.status} \cup
                          {e.task.devices[i].status : i \in 1..Len(e.task.devices)}
        IN /\ e.pc \in {"getGroupItem", "getGroupInfo",
                        "getGroupVersionInfo", "lookups"} =>
                 e.stage = 0 /\ statuses = {"Waiting"}
           /\ (e.pc = "chain" /\ e.stage = 1) => statuses = {"InProgress"}
           /\ e.pc \in {"chain", "saving"} => "Waiting" \notin statuses

C17_Witness ==
    \E w \in Workers :
        /\ exec[w].pc = "chain"
        /\ exec[w].stage = 1
        /\ exec[w].task.status = "InProgress"
        /\ Len(exec[w].task.devices) = 2

\* C18: the stored records change only by a write of SaveGroup, the one of
\* the chain or the one started by the catch block; marking the task
\* InProgress leaves the store as it is.
C18_OnlySaveGroupWrites ==
    [][store' # store =>
         \/ \E w \in Workers :
               /\ exec[w].pc = "saving"
               /\ exec'[w].pc = "returned"
               /\ ~exec'[w].caught
               /\ store' = [store EXCEPT ![exec[w].task.taskId] = exec[w].task]
         \/ \E r \in Settled :
               store' = [store EXCEPT ![r.task.taskId] = r.task]
      ]_vars

C18_Witness ==
    \E w \in Workers :
        /\ exec[w].pc = "chain"
        /\ exec[w].stage > 1
        /\ exec[w].task.status = "InProgress"
        /\ store[exec[w].task.taskId].status = "Waiting"

\* C19: a stored task that is Waiting can still be processed: its message
\* is on the queue, or the call that saved it has yet to publish it.
C19_WaitingTaskWillBeProcessed ==
    \A t \in DOMAIN store :
        store[t].status = "Waiting" =>
           \/ \E i \in 1..Len(queue) : queue[i].taskId = t
           \/ cpc = "send" /\ ctask.taskId = t

\* C20: when a lookup before the chain fails, the execution ends with the
\* error raised, the task and its devices as delivered (Waiting), no
\* handler and no SaveGroup invoked, and the store as it was.
C20_LookupFailureLeavesNoTrace ==
    [][\A w \in Workers :
         LET e == exec[w]
             f == exec'[w]
         IN (/\ e.pc \in {"getGroupItem", "getGroupInfo",
                           "getGroupVersionInfo", "lookups"}
             /\ f.pc \notin {"getGroupItem", "getGroupInfo",
                             "getGroupVersionInfo", "lookups", "chain", "lost"}) =>
               /\ f.pc = "raised"
               /\ f.task = e.task
               /\ f.task.status = "Waiting"
               /\ \A i \in 1..Len(f.task.devices) :
                     f.task.devices[i].status = "Waiting"
               /\ f.stage = 0 /\ f.saveCalls = 0 /\ ~f.caught
               /\ f.gStatus = e.gStatus /\ f.gMsg = e.gMsg
               /\ UNCHANGED <<store, savedGroup, detached, ggVersions>>
      ]_vars

C20_Witness ==
    \E w \in Workers :
        /\ exec[w].pc = "raised"
        /\ exec[w].latest > 0
        /\ store[exec[w].task.taskId].status = "Waiting"

----------------------------------------------------------------------------
(* Properties of DeploymentTemplatesService.save (specification SpecTemplates) *)

\* A write of save by caller c.
Writes(c) == tcall[c].pc = "save" /\ tcall'[c].pc = "returned"

\* C21: a save that finds the template at its write as it read it stores
\* versionNo 1 for a name that is absent and otherwise the stored versionNo
\* plus 1 with the stored createdAt; while every save of a name came in
\* turn, the stored versionNo is the number of saves since the name was
\* absent.
C21_SequentialVersions ==
    /\ [](\A n \in TemplateNames :
            (templates[n] # None /\ inTurn[n]) =>
               templates[n].versionNo = saved[n])
    /\ [][\A c \in Callers :
            LET n == tcall[c].input.name IN
            (Writes(c) /\ tcall[c].existing = templates[n]) =>
               IF templates[n] = None
                 THEN /\ templates'[n].versionNo = 1
                      /\ templates'[n].createdAt = templates'[n].updatedAt
                 ELSE /\ templates'[n].versionNo = templates[n].versionNo + 1
                      /\ templates'[n].createdAt = templates[n].createdAt
                      /\ templates'[n].updatedAt >= templates[n].updatedAt
       ]_vars

C21_Witness ==
    \E n \in TemplateNames :
        /\ inTurn[n]
        /\ saved[n] = 3
        /\ templates[n] # None
        /\ templates[n].versionNo = 3
        /\ templates[n].createdAt < templates[n].updatedAt

\* C22: every write of save onto a stored template advances the stored
\* versionNo by one, so that two saves of one name advance it by 2 and get
\* different versionNo values.
C22_NoSaveIsLost ==
    [][\A c \in Callers :
         LET n == tcall[c].input.name IN
         (Writes(c) /\ templates[n] # None) =>
            templates'[n].versionNo = templates[n].versionNo + 1
      ]_vars

\* C23: save of a name that exists stores the enabled of the template it
\* read, whatever the caller supplied; save of a new name stores the enabled
\* supplied, or true when none was supplied.
C23_EnabledOfExistingWins ==
    [][\A c \in Callers :
         LET n == tcall[c].input.name IN
         Writes(c) =>
            templates'[n].enabled =
               IF tcall[c].existing # None
                 THEN tcall[c].existing.enabled
                 ELSE IF tcall[c].input.enabled = "undefined"
                        THEN "true" ELSE tcall[c].input.enabled
      ]_vars

C23_Witness ==
    \E c \in Callers :
        /\ tcall[c].pc = "returned"
        /\ tcall[c].existing # None
        /\ tcall[c].existing.enabled = "true"
        /\ tcall[c].input.enabled = "false"
        /\ templates[tcall[c].input.name] = tcall[c].template
        /\ tcall[c].template.enabled = "true"

====
